---- MODULE Spec2Model ----
(***************************************************************************)
(* Model of the schema-adaptive sink of zdbcon: the Zendesk connector      *)
(* (src/zdbcon/zp.py) and its ticket variant (src/zdbcon/ticket.py),       *)
(* running against a pyodbc connection whose execute / commit / connect    *)
(* calls may fail.                                                         *)
(*                                                                         *)
(* Every driver call (Connection.execute, Connection.commit, db.connect)   *)
(* is one step whose outcome is chosen nondeterministically; the Python    *)
(* code between two driver calls is deterministic and is folded into the   *)
(* step that follows the driver call.  pc is the position of the single    *)
(* thread of control inside the running method ("idle" between calls).     *)
(***************************************************************************)
EXTENDS Integers, Sequences, FiniteSets, TLC

\* ---------------------------------------------------------------- bounds
MaxRows == 2          \* rows the destination table may hold
MaxTries == 2         \* largest `tries` argument of a direct execute/commit call
RecursionLimit == 4   \* depth at which Python raises RecursionError

\* ------------------------------------------------------ program constants
DefaultTries == 10    \* def execute(..., tries=10) / def commit(self, tries=10)

\* ------------------------------------------------------------ the inputs
Ids == {1, 2}
NoId == 0                               \* a row without an 'id' key
Statuses == {"open", "closed"}

\* A row handed to append_obj / append_ticket: the value of 'id' (NoId when
\* the key is missing) and the value of 'status'.
Rows == [id : Ids \cup {NoId}, status : Statuses]

\* The rows a table can hold.
TableRows == [id : Ids, status : Statuses]

\* ------------------------------------------------------------- variables
VARIABLES
    committed,      \* the destination table as committed in the database
    working,        \* the table as seen by the open connection (self.db):
                    \* committed state plus the uncommitted transaction
    id_cache,       \* self.id_cache: [none |-> TRUE] is Python's None
    table_columns,  \* self.table_columns
    pc,             \* position inside the running method
    call,           \* the running (or last finished) method call and arguments
    idx,            \* loop index over the columns of the row
    ex,             \* frame of the running execute(...) recursion
    cm,             \* frame of the running commit(...) recursion
    res,            \* value returned by the last execute(...)
    ret,            \* outcome of the last finished method call
    log,            \* statements the running method has sent, in order
    failed,         \* some driver call failed during the running method
    pre,            \* facts about the state when the running method started
    prev,           \* the row of the call before, when that call was a
                    \* default append_obj of a row new to the table during
                    \* which no driver call failed (NoRow otherwise)
    clean,          \* no driver call has failed since the sink was built
    pure            \* the call of a pure function under study: its
                    \* arguments and, once applied, its result

sinkvars == << committed, working, id_cache, table_columns, pc, call, idx, ex,
               cm, res, ret, log, failed, pre, prev, clean >>

vars == << sinkvars, pure >>

\* =====================================================================
\* The destination database (pyodbc connection to SQL Server)
\* =====================================================================

\* The columns of the descriptors type_list builds for a row, in the order
\* of the row's keys.  (Every value of a row is non-null here, so no
\* descriptor is filtered out.)
type_list(row) ==
    (IF row.id = NoId THEN << >> ELSE << "id" >>) \o << "status" >>

Range(s) == { s[k] : k \in 1..Len(s) }

NoRow == [id |-> NoId, status |-> "open"]

\* The SQL statements the connector builds.
SelectIds == [kind |-> "select_ids", col |-> "id", row |-> NoRow, cols |-> << >>]
SelectColumns == [kind |-> "select_columns", col |-> "id", row |-> NoRow, cols |-> << >>]
AlterAdd(c) == [kind |-> "alter_add", col |-> c, row |-> NoRow, cols |-> << >>]
sql_insertion_str(row) ==
    [kind |-> "insert", col |-> "id", row |-> row, cols |-> type_list(row)]
sql_update_str(row) ==
    [kind |-> "update", col |-> "id", row |-> row, cols |-> type_list(row)]
CreateTableStmt(tl) == [kind |-> "create", col |-> "id", row |-> NoRow, cols |-> tl]

\* The rows of a table: how many copies of each row it holds.
NoRows == [r \in TableRows |-> 0]

NoTable == [exists |-> FALSE, cols |-> {}, rows |-> NoRows]

TableIds(t) == { r.id : r \in { x \in TableRows : t.rows[x] > 0 } }

CountId(rows, id) ==
    rows[[id |-> id, status |-> "open"]] + rows[[id |-> id, status |-> "closed"]]

RowCount(t) == CountId(t.rows, 1) + CountId(t.rows, 2)

\* INSERT INTO ... VALUES (...): one more copy of the row.
InsertRow(rows, row) ==
    [rows EXCEPT ![[id |-> row.id, status |-> row.status]] = @ + 1]

\* UPDATE ... SET ... WHERE id=<id>: every row with that id takes the new
\* values; a statement that matches no row succeeds and changes nothing.
UpdateRows(rows, row) ==
    [r \in TableRows |->
        IF r.id # row.id THEN rows[r]
        ELSE IF r.status = row.status THEN CountId(rows, row.id)
        ELSE 0]

\* Whether the server rejects the statement whatever the connection's health:
\* the table is missing (42S02), a column named by the statement is missing,
\* the column to add exists already, or the table to create exists already.
Rejected(stmt, t) ==
    CASE stmt.kind = "select_ids" -> ~t.exists
      [] stmt.kind = "select_columns" -> FALSE
      [] stmt.kind = "alter_add" -> ~t.exists \/ stmt.col \in t.cols
      [] stmt.kind \in {"insert", "update"} ->
            ~t.exists \/ ~(Range(stmt.cols) \subseteq t.cols)
      [] stmt.kind = "create" -> t.exists \/ stmt.cols = << >>

\* The table after the statement has run inside the open transaction.
Applied(stmt, t) ==
    CASE stmt.kind = "alter_add" -> [t EXCEPT !.cols = @ \cup {stmt.col}]
      [] stmt.kind = "insert" ->
            [t EXCEPT !.rows = InsertRow(@, stmt.row)]
      [] stmt.kind = "update" -> [t EXCEPT !.rows = UpdateRows(@, stmt.row)]
      [] stmt.kind = "create" ->
            [exists |-> TRUE, cols |-> Range(stmt.cols), rows |-> NoRows]
      [] OTHER -> t

\* What fetchall() of the statement's cursor yields.
Fetched(stmt, t) ==
    CASE stmt.kind = "select_ids" -> TableIds(t)
      [] stmt.kind = "select_columns" -> IF t.exists THEN t.cols ELSE {}
      [] OTHER -> {}

\* =====================================================================
\* Control state
\* =====================================================================

None == [none |-> TRUE, ids |-> {}]
SetOf(S) == [none |-> FALSE, ids |-> S]

\* The frame of execute: the statement, the tries left, the recursion depth,
\* where control continues, and what the driver did so far (calls made,
\* whether the last one succeeded and what it fetched, reconnects made).
NoFrame == [stmt |-> SelectIds, tries |-> 0, depth |-> 0, ret |-> "done",
            attempts |-> 0, reconnects |-> 0, ok |-> FALSE, val |-> {}]
NoCommit == [tries |-> 0, depth |-> 0, ret |-> "done",
             attempts |-> 0, reconnects |-> 0]
NoResult == [kind |-> "none", val |-> {}, code |-> ""]

NoCall == [op |-> "init", row |-> NoRow, recache |-> FALSE, force |-> FALSE,
           tries |-> 0]

Snapshot(row) ==
    [exists |-> working.exists,
     inTable |-> row.id \in TableIds(working),
     inCache |-> row.id \in id_cache.ids,
     same |-> row.id # NoId /\ working.rows[row] > 0,
     rows |-> RowCount(working),
     cols |-> table_columns,
     ids |-> id_cache,
     db |-> << committed, working >>]

NoSnapshot ==
    [exists |-> FALSE, inTable |-> FALSE, inCache |-> FALSE, same |-> FALSE,
     rows |-> 0,
     cols |-> {}, ids |-> None, db |-> << >>]

\* A method starts: its call record, a fresh log and a snapshot.
Begin(op, row, recache, force, tries) ==
    /\ call' = [op |-> op, row |-> row, recache |-> recache, force |-> force,
                tries |-> tries]
    /\ pre' = Snapshot(row)
    /\ failed' = FALSE

\* The running method returns v (or raises the exception named v).
Return(v) ==
    /\ pc' = "done"
    /\ ret' = v

\* A statement sent by the running method: its kind, the way it was sent
\* (through execute, through commit, or straight to the driver) and the id
\* of the row it writes.  `col` is the column an ALTER TABLE ... ADD names.
Entry(kind, via, id) == [kind |-> kind, via |-> via, id |-> id, col |-> ""]

\* self.execute(stmt, tries): enter the retrying wrapper; control continues
\* at `label` when it returns.
Invoke(stmt, tries, label, lg) ==
    /\ pc' = "execute"
    /\ ex' = [NoFrame EXCEPT !.stmt = stmt, !.tries = tries, !.ret = label]
    /\ log' = Append(lg, [Entry(stmt.kind, "execute", stmt.row.id)
                             EXCEPT !.col = stmt.col])

\* self.commit(tries): enter the retrying wrapper.
InvokeCommit(tries, label, lg) ==
    /\ pc' = "commit"
    /\ cm' = [NoCommit EXCEPT !.tries = tries, !.ret = label]
    /\ log' = Append(lg, Entry("commit", "commit", NoId))

\* No pure function is under study while the sink runs.
NoPure == [fn |-> "none"]

SinkInit ==
    /\ committed \in { NoTable, [exists |-> TRUE, cols |-> {"id"}, rows |-> NoRows] }
    /\ working = committed
    /\ id_cache = None
    /\ table_columns = {}
    /\ pc = "idle"
    /\ call = NoCall
    /\ idx = 1
    /\ ex = NoFrame
    /\ cm = NoCommit
    /\ res = NoResult
    /\ ret = "none"
    /\ log = << >>
    /\ failed = FALSE
    /\ pre = NoSnapshot
    /\ prev = NoRow
    /\ clean = TRUE

Init == SinkInit /\ pure = NoPure

\* =====================================================================
\* Resilient executor: Zendesk.execute and Zendesk.commit
\* =====================================================================

\* What the first frame of execute returns when the frame at `depth` got r
\* from the driver: `return r`, passed down by every
\* `return self.execute(sql_query, tries - 1, False)`.
Returned_Dropped(r, depth) == IF depth > 0 THEN NoResult ELSE r

Returned(r, depth) == r

\* self.db.execute(sql_query) succeeds.
ExecuteSuccess ==
    /\ pc = "execute"
    /\ ~Rejected(ex.stmt, working)
    /\ working' = Applied(ex.stmt, working)
    /\ res' = Returned([kind |-> "ok", val |-> Fetched(ex.stmt, working),
                        code |-> ""], ex.depth)
    /\ ex' = [ex EXCEPT !.attempts = @ + 1, !.ok = TRUE,
                        !.val = Fetched(ex.stmt, working)]
    /\ pc' = ex.ret
    /\ ret' = IF ex.ret # "done" THEN ret
              ELSE IF res'.kind = "ok" THEN "result" ELSE "None"
    /\ UNCHANGED << committed, id_cache, table_columns, call, idx, cm, log,
                    failed, pre, prev >>
    /\ clean' = (clean /\ ~failed')
    /\ UNCHANGED pure

ExecuteRetry_NoCountdown ==
    /\ pc = "execute"
    /\ ex.tries > 0
    /\ ex' = [ex EXCEPT !.depth = @ + 1, !.attempts = @ + 1]
    /\ failed' = TRUE
    /\ UNCHANGED << committed, working, id_cache, table_columns, pc, call, idx,
                    cm, res, ret, log, pre, prev >>
    /\ clean' = (clean /\ ~failed')
    /\ UNCHANGED pure

\* self.db.execute raises db.Error with tries > 0: the except branch calls
\* self.execute(sql_query, tries - 1, False).
ExecuteRetry ==
    /\ pc = "execute"
    /\ ex.tries > 0
    /\ ex' = [ex EXCEPT !.tries = @ - 1, !.depth = @ + 1, !.attempts = @ + 1]
    /\ failed' = TRUE
    /\ UNCHANGED << committed, working, id_cache, table_columns, pc, call, idx,
                    cm, res, ret, log, pre, prev >>
    /\ clean' = (clean /\ ~failed')
    /\ UNCHANGED pure

\* The outcome of execute when self.db.execute raises in the frame with
\* tries = 0, where no try guards it.  Below the first frame the bare except
\* of the calling frame catches the error and returns None, which every frame
\* passes down; in the first frame the error reaches the caller of execute.
Exhausted_Uncaught(depth, code) ==
    [kind |-> "raise", val |-> {}, code |-> code]

Exhausted(depth, code) ==
    IF depth > 0 THEN NoResult
    ELSE [kind |-> "raise", val |-> {}, code |-> code]

ExecuteExhausted ==
    /\ pc = "execute"
    /\ ex.tries = 0
    /\ \E fault \in BOOLEAN :
        /\ fault \/ Rejected(ex.stmt, working)
        /\ res' = Exhausted(ex.depth,
                            IF ~fault /\ ~working.exists THEN "42S02"
                                                         ELSE "HY000")
    /\ ex' = [ex EXCEPT !.attempts = @ + 1, !.ok = FALSE]
    /\ failed' = TRUE
    /\ pc' = ex.ret
    /\ ret' = IF ex.ret # "done" THEN ret
              ELSE IF res'.kind = "raise" THEN "db.Error" ELSE "None"
    /\ UNCHANGED << committed, working, id_cache, table_columns, call, idx, cm,
                    log, pre, prev >>
    /\ clean' = (clean /\ ~failed')
    /\ UNCHANGED pure

\* self.db.commit() succeeds: the open transaction becomes durable.
CommitSuccess ==
    /\ pc = "commit"
    /\ committed' = working
    /\ cm' = [cm EXCEPT !.attempts = @ + 1]
    /\ pc' = cm.ret
    /\ ret' = IF cm.ret = "done" THEN "None" ELSE ret
    /\ UNCHANGED << working, id_cache, table_columns, call, idx, ex, res, log,
                    failed, pre, prev >>
    /\ clean' = (clean /\ ~failed')
    /\ UNCHANGED pure

\* self.db.commit() raises db.Error: the except branch reconnects next.
CommitFail ==
    /\ pc = "commit"
    /\ cm' = [cm EXCEPT !.attempts = @ + 1]
    /\ failed' = TRUE
    /\ pc' = "reconnect"
    /\ UNCHANGED << committed, working, id_cache, table_columns, call, idx, ex,
                    res, ret, log, pre, prev >>
    /\ clean' = (clean /\ ~failed')
    /\ UNCHANGED pure

\* self.reconnect() succeeds: self.db is a new connection, which sees the
\* committed state only; then self.commit(tries - 1) is called, whatever
\* tries is.  At the interpreter's recursion limit that call raises
\* RecursionError, which the bare except swallows.
ReconnectSuccess ==
    /\ pc = "reconnect"
    /\ working' = committed
    /\ IF cm.depth + 1 >= RecursionLimit
       THEN /\ cm' = [cm EXCEPT !.reconnects = @ + 1]
            /\ pc' = cm.ret
            /\ ret' = IF cm.ret = "done" THEN "None" ELSE ret
       ELSE /\ cm' = [cm EXCEPT !.reconnects = @ + 1, !.tries = @ - 1,
                                !.depth = @ + 1]
            /\ pc' = "commit"
            /\ ret' = ret
    /\ UNCHANGED << committed, id_cache, table_columns, call, idx, ex, res,
                    log, failed, pre, prev >>
    /\ clean' = (clean /\ ~failed')
    /\ UNCHANGED pure

\* self.reconnect() raises (db.connect fails): the bare except swallows it and
\* commit returns; self.db is still the old connection.
ReconnectFail ==
    /\ pc = "reconnect"
    /\ pc' = cm.ret
    /\ ret' = IF cm.ret = "done" THEN "None" ELSE ret
    /\ UNCHANGED << committed, working, id_cache, table_columns, call, idx, ex,
                    cm, res, log, failed, pre, prev >>
    /\ clean' = (clean /\ ~failed')
    /\ UNCHANGED pure

\* Direct calls of the two wrappers, with any statement and counter.
Execute(stmt, tries) ==
    /\ pc = "idle"
    /\ Begin("execute", NoRow, FALSE, FALSE, tries)
    /\ ret' = "running"
    /\ Invoke(stmt, tries, "done", << >>)
    /\ res' = NoResult
    /\ UNCHANGED << committed, working, id_cache, table_columns, idx, cm,
                    prev >>
    /\ clean' = (clean /\ ~failed')
    /\ UNCHANGED pure

Commit(tries) ==
    /\ pc = "idle"
    /\ Begin("commit", NoRow, FALSE, FALSE, tries)
    /\ ret' = "running"
    /\ InvokeCommit(tries, "done", << >>)
    /\ UNCHANGED << committed, working, id_cache, table_columns, idx, ex,
                    res, prev >>
    /\ clean' = (clean /\ ~failed')
    /\ UNCHANGED pure

\* =====================================================================
\* Schema-adaptive sink: Zendesk.append_obj, ZenTicket.append_ticket
\* =====================================================================

\* Where control continues after get_table_ids, by the place it was called.
AfterIds(label) ==
    CASE label = "ids1" -> "check"
      [] label = "tk_ids" -> "tk_check"
      [] label = "ids2" -> "write"
      [] OTHER -> "done"

\* get_table_ids(recache, type_list), entered from a method: it queries the
\* table when recache is set or nothing is cached, else returns the cache.
get_table_ids(recache, label, lg) ==
    IF recache \/ id_cache.none
    THEN Invoke(SelectIds, DefaultTries, label, lg)
    ELSE /\ pc' = AfterIds(label)
         /\ log' = lg
         /\ ex' = NoFrame

\* get_table_ids after its self.execute returned: the cache is replaced by
\* the fetched identifiers, or by the empty set when execute returned None.
\* When execute raised, error 42S02 leads to create_table and the cache is
\* left as it was.
GetTableIdsReturn ==
    /\ pc \in {"ids1", "ids2", "tk_ids", "ids"}
    /\ IF res.kind = "raise"
       THEN /\ id_cache' = id_cache
            /\ IF res.code = "42S02"
               THEN /\ pc' = "create_execute"
                    /\ ex' = [NoFrame EXCEPT
                                !.stmt = CreateTableStmt(
                                    IF pc = "ids1" THEN type_list(call.row)
                                                   ELSE << >>),
                                !.ret = AfterIds(pc)]
                    /\ ret' = ret
               ELSE /\ pc' = AfterIds(pc)
                    /\ ex' = NoFrame
                    /\ ret' = IF pc = "ids" THEN "ids" ELSE ret
       ELSE /\ id_cache' = SetOf(IF res.kind = "ok" THEN res.val ELSE {})
            /\ pc' = AfterIds(pc)
            /\ ex' = NoFrame
            /\ ret' = IF pc = "ids" THEN "ids" ELSE ret
    /\ UNCHANGED << committed, working, table_columns, call, idx, cm, res, log,
                    failed, pre, prev >>
    /\ clean' = (clean /\ ~failed')
    /\ UNCHANGED pure

\* create_table: cursor.execute(CREATE TABLE ...) sent straight to the
\* driver; an error propagates to the caller.
CreateExecute ==
    /\ pc = "create_execute"
    /\ log' = Append(log, Entry("create", "direct", NoId))
    /\ \/ /\ ~Rejected(ex.stmt, working)
          /\ working' = Applied(ex.stmt, working)
          /\ pc' = "create_commit"
          /\ UNCHANGED << ret, failed >>
       \/ /\ failed' = TRUE
          /\ Return("db.Error")
          /\ UNCHANGED working
    /\ UNCHANGED << committed, id_cache, table_columns, call, idx, ex, cm, res,
                    pre, prev >>
    /\ clean' = (clean /\ ~failed')
    /\ UNCHANGED pure

\* create_table: cursor.commit() sent straight to the driver.
CreateCommit ==
    /\ pc = "create_commit"
    /\ log' = Append(log, Entry("commit", "direct", NoId))
    /\ \/ /\ committed' = working
          /\ pc' = ex.ret
          /\ ret' = IF ex.ret = "done" THEN "None" ELSE ret
          /\ UNCHANGED failed
       \/ /\ failed' = TRUE
          /\ Return("db.Error")
          /\ UNCHANGED committed
    /\ UNCHANGED << working, id_cache, table_columns, call, idx, ex, cm, res,
                    pre, prev >>
    /\ clean' = (clean /\ ~failed')
    /\ UNCHANGED pure

\* create_table(type_list) called on the sink.
CreateTable(row) ==
    /\ pc = "idle"
    /\ Begin("create_table", row, FALSE, FALSE, 0)
    /\ ret' = "running"
    /\ pc' = "create_execute"
    /\ ex' = [NoFrame EXCEPT !.stmt = CreateTableStmt(type_list(row))]
    /\ log' = << >>
    /\ UNCHANGED << committed, working, id_cache, table_columns, idx, cm,
                    res, prev >>
    /\ clean' = (clean /\ ~failed')
    /\ UNCHANGED pure

\* `id=obj_dict['id']`, the first statement of append_obj: the subscript
\* raises KeyError when the row has no 'id' key.
LookupId_Lenient(row) == "ok"

LookupId(row) == IF row.id = NoId THEN "KeyError" ELSE "ok"

\* append_obj(obj_dict, recache, force) up to its first get_table_ids:
\* obj_dict['id'] raises KeyError when the row has no id.
AppendObj(row, recache, force) ==
    /\ pc = "idle"
    /\ RowCount(working) < MaxRows
    /\ Begin("append_obj", row, recache, force, DefaultTries)
    /\ IF LookupId(row) = "KeyError"
       THEN /\ Return("KeyError")
            /\ log' = << >>
            /\ ex' = NoFrame
       ELSE /\ ret' = "running"
            /\ get_table_ids(recache, "ids1", << >>)
    /\ UNCHANGED << committed, working, id_cache, table_columns, idx, cm,
                    res, prev >>
    /\ clean' = (clean /\ ~failed')
    /\ UNCHANGED pure

\* append_obj: `id in self.get_table_ids(...)` and `not force`.
AlreadyIn_Inverted(id, ids, force) == id \in ids /\ force

AlreadyIn(id, ids, force) == id \in ids /\ ~force

\* append_obj: an id found in the cache ends the call with False unless
\* force is set; otherwise add_columns starts.
AppendObjCheck_Committing ==
    /\ pc = "check"
    /\ IF id_cache.none
       THEN Return("TypeError") /\ idx' = idx /\ log' = log
            /\ committed' = committed
       ELSE IF AlreadyIn(call.row.id, id_cache.ids, call.force)
       THEN /\ Return("False") /\ idx' = idx
            /\ log' = Append(log, Entry("commit", "direct", NoId))
            /\ committed' = working
       ELSE /\ pc' = "has_column"
            /\ idx' = 1
            /\ ret' = ret
            /\ log' = log
            /\ committed' = committed
    /\ UNCHANGED << working, id_cache, table_columns, call, ex, cm,
                    res, failed, pre, prev >>
    /\ clean' = (clean /\ ~failed')
    /\ UNCHANGED pure

AppendObjCheck ==
    /\ pc = "check"
    /\ IF id_cache.none
       THEN Return("TypeError") /\ idx' = idx
       ELSE IF AlreadyIn(call.row.id, id_cache.ids, call.force)
       THEN Return("False") /\ idx' = idx
       ELSE /\ pc' = "has_column"
            /\ idx' = 1
            /\ ret' = ret
    /\ UNCHANGED << committed, working, id_cache, table_columns, call, ex, cm,
                    res, log, failed, pre, prev >>
    /\ clean' = (clean /\ ~failed')
    /\ UNCHANGED pure

\* The columns the running append walks through: the descriptors of the row
\* (add_columns) or the keys of the ticket's field types (append_ticket).
ColumnList == type_list(call.row)

\* After the column loop: append_obj consults get_table_ids once more,
\* append_ticket goes on with the identifiers it read at its start.
AfterColumns ==
    IF call.op = "append_obj"
    THEN get_table_ids(call.recache, "ids2", log)
    ELSE pc' = "write" /\ log' = log /\ ex' = NoFrame

HasColumn_NoAlter ==
    /\ pc = "has_column"
    /\ IF idx > Len(ColumnList)
       THEN AfterColumns /\ idx' = idx
       ELSE IF table_columns = {}
       THEN Invoke(SelectColumns, DefaultTries, "cached", log) /\ idx' = idx
       ELSE pc' = pc /\ idx' = idx + 1 /\ log' = log /\ ex' = ex
    /\ UNCHANGED << committed, working, id_cache, table_columns, call, cm, res,
                    ret, failed, pre, prev >>
    /\ clean' = (clean /\ ~failed')
    /\ UNCHANGED pure

\* One round of the column loop: has_column(col_name), which fills an empty
\* column cache first, then add_column for a column the cache lacks.
HasColumn ==
    /\ pc = "has_column"
    /\ IF idx > Len(ColumnList)
       THEN AfterColumns /\ idx' = idx
       ELSE IF table_columns = {}
       THEN Invoke(SelectColumns, DefaultTries, "cached", log) /\ idx' = idx
       ELSE IF ColumnList[idx] \in table_columns
       THEN pc' = pc /\ idx' = idx + 1 /\ log' = log /\ ex' = ex
       ELSE Invoke(AlterAdd(ColumnList[idx]), DefaultTries, "added", log)
            /\ idx' = idx
    /\ UNCHANGED << committed, working, id_cache, table_columns, call, cm, res,
                    ret, failed, pre, prev >>
    /\ clean' = (clean /\ ~failed')
    /\ UNCHANGED pure

\* cache_table_columns after its self.execute returned: .fetchall() on the
\* None of an abandoned statement raises AttributeError.  Called from
\* get_table_columns ("cached") the membership test of has_column follows;
\* called after add_column ("recached") the loop goes to the next column.
CacheTableColumnsReturn ==
    /\ pc \in {"cached", "recached"}
    /\ IF res.kind # "ok"
       THEN /\ Return("AttributeError")
            /\ UNCHANGED << table_columns, idx, ex, log >>
       ELSE /\ table_columns' = res.val
            /\ ret' = ret
            /\ IF pc = "recached" \/ ColumnList[idx] \in res.val
               THEN pc' = "has_column" /\ idx' = idx + 1 /\ log' = log
                    /\ ex' = NoFrame
               ELSE Invoke(AlterAdd(ColumnList[idx]), DefaultTries, "added", log)
                    /\ idx' = idx
    /\ UNCHANGED << committed, working, id_cache, call, cm, res, failed, pre,
                    prev >>
    /\ clean' = (clean /\ ~failed')
    /\ UNCHANGED pure

\* add_column after its self.execute returned (the result is not looked at):
\* self.db.commit() is sent straight to the driver.  When it raises, the
\* error leaves the append; otherwise cache_table_columns runs.
AddColumnCommit ==
    /\ pc = "added"
    /\ \/ /\ committed' = working
          /\ Invoke(SelectColumns, DefaultTries, "recached",
                    Append(log, Entry("commit", "direct", NoId)))
          /\ UNCHANGED << ret, failed >>
       \/ /\ failed' = TRUE
          /\ Return("db.Error")
          /\ log' = Append(log, Entry("commit", "direct", NoId))
          /\ UNCHANGED << committed, ex >>
    /\ UNCHANGED << working, id_cache, table_columns, call, idx, cm, res,
                    pre, prev >>
    /\ clean' = (clean /\ ~failed')
    /\ UNCHANGED pure

\* The statement that writes the row: an UPDATE by id when the id is among
\* the known identifiers, else an INSERT.
WriteStatement_AlwaysInsert(row, ids) == sql_insertion_str(row)

WriteStatement_AlwaysUpdate(row, ids) == sql_update_str(row)

WriteStatement(row, ids) ==
    IF row.id \in ids THEN sql_update_str(row) ELSE sql_insertion_str(row)

\* `self.id_cache.add(obj_dict['id'])` in append_obj and
\* `self.id_cache.add(ticket_id)` in append_ticket.
CacheAdd_Forgotten(ids, id) == ids

CacheAdd(ids, id) == ids \cup {id}

\* The INSERT or UPDATE: append_obj decides by the cache it just consulted
\* and adds the id to the cache before executing; append_ticket decides by
\* the identifiers read at its start.
Write ==
    /\ pc = "write"
    /\ Invoke(WriteStatement(call.row, id_cache.ids), DefaultTries, "written",
              log)
    /\ id_cache' = IF call.op = "append_obj"
                   THEN SetOf(CacheAdd(id_cache.ids, call.row.id))
                   ELSE id_cache
    /\ UNCHANGED << committed, working, table_columns, call, idx, cm, res, ret,
                    failed, pre, prev >>
    /\ clean' = (clean /\ ~failed')
    /\ UNCHANGED pure

\* After the statement's execute returned (the result is not looked at):
\* self.commit().
Written ==
    /\ pc = "written"
    /\ InvokeCommit(DefaultTries, "committed", log)
    /\ ex' = NoFrame
    /\ UNCHANGED << committed, working, id_cache, table_columns, call, idx,
                    res, ret, failed, pre, prev >>
    /\ clean' = (clean /\ ~failed')
    /\ UNCHANGED pure

\* After commit returned: append_ticket adds the id to the cache; both
\* return True.
Committed ==
    /\ pc = "committed"
    /\ id_cache' = IF call.op = "append_ticket"
                   THEN SetOf(CacheAdd(id_cache.ids, call.row.id))
                   ELSE id_cache
    /\ cm' = NoCommit
    /\ Return("True")
    /\ UNCHANGED << committed, working, table_columns, call, idx, ex, res, log,
                    failed, pre, prev >>
    /\ clean' = (clean /\ ~failed')
    /\ UNCHANGED pure

\* append_ticket(ticket, force_update) up to its get_table_ids(recache=False).
AppendTicket(ticket, force_update) ==
    /\ pc = "idle"
    /\ RowCount(working) < MaxRows
    /\ ticket.id # NoId
    /\ Begin("append_ticket", ticket, FALSE, force_update, DefaultTries)
    /\ ret' = "running"
    /\ get_table_ids(FALSE, "tk_ids", << >>)
    /\ UNCHANGED << committed, working, id_cache, table_columns, idx, cm,
                    res, prev >>
    /\ clean' = (clean /\ ~failed')
    /\ UNCHANGED pure

\* append_ticket: `ticket_status == 'closed' and (ticket_id in table_ids)`
\* and `not force_update`.
ClosedAndIn_Unforced(ticket, table_ids, force_update) ==
    ticket.status = "closed" /\ ticket.id \in table_ids

ClosedAndIn(ticket, table_ids, force_update) ==
    ticket.status = "closed" /\ ticket.id \in table_ids /\ ~force_update

\* append_ticket: a closed ticket whose id is cached ends the call with
\* False unless force_update is set.
AppendTicketCheck ==
    /\ pc = "tk_check"
    /\ IF id_cache.none
       THEN Return("TypeError") /\ idx' = idx
       ELSE IF ClosedAndIn(call.row, id_cache.ids, call.force)
       THEN Return("False") /\ idx' = idx
       ELSE /\ pc' = "has_column"
            /\ idx' = 1
            /\ ret' = ret
    /\ UNCHANGED << committed, working, id_cache, table_columns, call, ex, cm,
                    res, log, failed, pre, prev >>
    /\ clean' = (clean /\ ~failed')
    /\ UNCHANGED pure

\* get_table_ids(recache) called on the sink.
GetTableIds(recache) ==
    /\ pc = "idle"
    /\ Begin("get_table_ids", NoRow, recache, FALSE, DefaultTries)
    /\ IF recache \/ id_cache.none
       THEN ret' = "running" /\ get_table_ids(recache, "ids", << >>)
       ELSE Return("ids") /\ log' = << >> /\ ex' = NoFrame
    /\ UNCHANGED << committed, working, id_cache, table_columns, idx, cm,
                    res, prev >>
    /\ clean' = (clean /\ ~failed')
    /\ UNCHANGED pure

\* The finished call was append_obj(row) with the default recache and force,
\* on a row with an id the table did not hold, and no driver call failed.
FirstAppend ==
    /\ call.op = "append_obj"
    /\ call.recache /\ ~call.force
    /\ call.row.id # NoId
    /\ ~pre.inTable
    /\ ~failed

\* The finished call's frame is gone: the sink is ready for the next call.
Finish ==
    /\ pc = "done"
    /\ pc' = "idle"
    /\ call' = NoCall
    /\ idx' = 1
    /\ ex' = NoFrame
    /\ cm' = NoCommit
    /\ res' = NoResult
    /\ ret' = "none"
    /\ log' = << >>
    /\ failed' = FALSE
    /\ pre' = NoSnapshot
    /\ prev' = IF FirstAppend THEN call.row ELSE NoRow
    /\ UNCHANGED << committed, working, id_cache, table_columns >>
    /\ clean' = (clean /\ ~failed')
    /\ UNCHANGED pure

Next ==
    \/ \E row \in Rows, recache \in BOOLEAN, force \in BOOLEAN :
            AppendObj(row, recache, force)
    \/ AppendObjCheck
    \/ \E ticket \in Rows, force_update \in BOOLEAN :
            AppendTicket(ticket, force_update)
    \/ AppendTicketCheck
    \/ GetTableIdsReturn
    \/ HasColumn
    \/ CacheTableColumnsReturn
    \/ AddColumnCommit
    \/ Write
    \/ Written
    \/ Committed
    \/ \E recache \in BOOLEAN : GetTableIds(recache)
    \/ Finish
    \/ \E row \in Rows : CreateTable(row)
    \/ CreateExecute
    \/ CreateCommit
    \/ \E stmt \in {SelectIds, SelectColumns}, tries \in 0..MaxTries :
            Execute(stmt, tries)
    \/ ExecuteSuccess
    \/ ExecuteRetry
    \/ ExecuteExhausted
    \/ \E tries \in 0..MaxTries : Commit(tries)
    \/ CommitSuccess
    \/ CommitFail
    \/ ReconnectSuccess
    \/ ReconnectFail

Spec == Init /\ [][Next]_vars

\* =====================================================================
\* Type mapper: Zendesk.map_type (ZenAudit.map_type is the same code)
\* =====================================================================

\* Field names are sequences of characters, so that `column[-3:]` can be
\* taken: "_at", "d_at", "at", "cat", "lat" and "id".
Name_at == << "_", "a", "t" >>
Name_d_at == << "d", "_", "a", "t" >>
Name_at2 == << "a", "t" >>
Name_cat == << "c", "a", "t" >>
Name_lat == << "l", "a", "t" >>
Name_id == << "i", "d" >>

FieldNames == { Name_at, Name_d_at, Name_at2, Name_cat, Name_lat, Name_id }

\* The types pandas reports and the SQL types a configuration names.
PdTypes == { "int64", "object", "float64" }
DirectTypes == { "bigint", "varchar(max)" }
ExceptTypes == { "int", "decimal(10,6)" }

\* The functions from a subset of D to R: a dict with keys among D.
Dicts(D, R) == UNION { [K -> R] : K \in SUBSET D }

\* The configurations tried: 'direct' maps some of int64 and object,
\* 'except' maps some of "id", "lat" and "d_at", 'date_fields' lists some
\* of "id" and "d_at".  All three sections are present.
MappingDicts ==
    [direct : Dicts({"int64", "object"}, DirectTypes),
     date_fields : SUBSET { Name_id, Name_d_at },
     except : Dicts({ Name_id, Name_lat, Name_d_at }, ExceptTypes)]

\* column[-3:]: the last three characters, the whole name when it is
\* shorter.
Last3(column) ==
    SubSeq(column, IF Len(column) > 3 THEN Len(column) - 2 ELSE 1, Len(column))

\* `column in date_map or column[-3:] == '_at'`
IsDate_ListOnly(mapping_dict, column) == column \in mapping_dict.date_fields

IsDate(mapping_dict, column) ==
    column \in mapping_dict.date_fields \/ Last3(column) = << "_", "a", "t" >>

\* map_type(column, pd_type) under the configuration mapping_dict: the date
\* test, then 'direct' by observed type, then 'except' by name, then the
\* observed type itself.
map_type_ExceptFirst(mapping_dict, column, pd_type) ==
    IF column \in DOMAIN mapping_dict.except
    THEN mapping_dict.except[column]
    ELSE IF IsDate(mapping_dict, column) THEN "datetime"
    ELSE IF pd_type \in DOMAIN mapping_dict.direct
    THEN mapping_dict.direct[pd_type]
    ELSE pd_type

map_type(mapping_dict, column, pd_type) ==
    IF IsDate(mapping_dict, column) THEN "datetime"
    ELSE IF pd_type \in DOMAIN mapping_dict.direct
    THEN mapping_dict.direct[pd_type]
    ELSE IF column \in DOMAIN mapping_dict.except
    THEN mapping_dict.except[column]
    ELSE pd_type

\* The calls of map_type tried.
MapTypeCalls ==
    [fn : {"map_type"}, mapping_dict : MappingDicts, column : FieldNames,
     pd_type : PdTypes, returned : {FALSE}, out : {"none"}]

\* map_type is applied to the arguments at hand.
MapType ==
    /\ pure.fn = "map_type"
    /\ ~pure.returned
    /\ pure' = [pure EXCEPT
                  !.returned = TRUE,
                  !.out = map_type(pure.mapping_dict, pure.column,
                                   pure.pd_type)]
    /\ UNCHANGED sinkvars

\* =====================================================================
\* Flattener: Zendesk.flatten_dict and Zendesk.flatten_dict_list
\* (flatten_dictionary.py holds the same two functions)
\* =====================================================================

\* Python values carry their type: a scalar (str), a dict (a function from
\* its keys), a list (a sequence); a call that raises yields the exception.
Scalar(v) == [t |-> "s", v |-> v]
Mapping(f) == [t |-> "d", v |-> f]
Listing(q) == [t |-> "l", v |-> q]
Raised(e) == [t |-> "raise", v |-> e]

\* The longest list of mappings tried.
MaxLen == 2

Seqs(S, n) == UNION { [1..k -> S] : k \in 0..n }

Scalars == { Scalar("a"), Scalar("b") }

\* Rows without nesting: some of 'id' and 'type' with scalar values, and a
\* row whose 'id' is a list.
FlatRows ==
    { Mapping(f) : f \in Dicts({"id", "type"}, Scalars) }
        \cup { Mapping([k \in {"id"} |-> Listing(<< Scalar("a") >>)]) }

RowLists == { Listing(q) : q \in Seqs(FlatRows, MaxLen) }

\* Rows that hold a list of rows under 'x', and lists of such rows.
NestedRows ==
    { Mapping("id" :> i @@ "x" :> Listing(q)) :
        i \in Scalars, q \in Seqs(FlatRows, 1) }

NestedLists ==
    { Listing(q) : q \in [1..1 -> NestedRows] }
        \cup { Listing(<< r, Mapping("id" :> Scalar("b") @@ "x" :> Scalar("a")) >>) :
                 r \in NestedRows }

\* Lists that are not lists of mappings: of scalars, of a scalar and a
\* mapping, of a list, of a mapping and a scalar.
OtherLists ==
    { Listing(<< Scalar("a") >>),
      Listing(<< Scalar("a"), Mapping(<< >>) >>),
      Listing(<< Listing(<< >>) >>),
      Listing(<< Mapping([k \in {"id"} |-> Scalar("a")]), Scalar("b") >>) }

FlattenValues ==
    Scalars \cup FlatRows \cup RowLists \cup NestedLists \cup OtherLists

\* The records flattened: one field 'x' holding any of the values.
FlattenRecords == { Mapping([k \in {"x"} |-> v]) : v \in FlattenValues }

\* The `key` argument: a str, or a list of candidate keys tried in order.
DiscriminatorKeys ==
    { [str |-> TRUE, keys |-> << "id" >>],
      [str |-> FALSE, keys |-> << "id", "type" >>],
      [str |-> FALSE, keys |-> << "type" >>],
      [str |-> FALSE, keys |-> << >>] }

\* What choose_key returns when its loop ends without a hit: None.
NoKey == "None"

\* `wrong_type = lambda x: type(x)!=list and type(x)!=dict`
wrong_type(x) == x.t = "s"

\* choose_key(d) of flatten_dict_list for a dict d: the key itself when it
\* is a str, else the first candidate that is a key of d, else None.
choose_key_Fallback(key, d) ==
    IF key.str THEN key.keys[1]
    ELSE IF \E i \in 1..Len(key.keys) : key.keys[i] \in DOMAIN d.v
    THEN key.keys[CHOOSE i \in 1..Len(key.keys) :
                    /\ key.keys[i] \in DOMAIN d.v
                    /\ \A j \in 1..(i - 1) : key.keys[j] \notin DOMAIN d.v]
    ELSE IF DOMAIN d.v # {} THEN CHOOSE k \in DOMAIN d.v : TRUE
    ELSE NoKey

choose_key(key, d) ==
    IF key.str THEN key.keys[1]
    ELSE IF \E i \in 1..Len(key.keys) : key.keys[i] \in DOMAIN d.v
    THEN key.keys[CHOOSE i \in 1..Len(key.keys) :
                    /\ key.keys[i] \in DOMAIN d.v
                    /\ \A j \in 1..(i - 1) : key.keys[j] \notin DOMAIN d.v]
    ELSE NoKey

\* `d[choose_key(d)]` for an element d of the list: KeyError when the
\* chosen key (None included) is not a key of the dict d; TypeError when d
\* is a list or a scalar, which take no such subscript.
ElementKey(d, key) ==
    IF d.t # "d" THEN Raised("TypeError")
    ELSE IF choose_key(key, d) \notin DOMAIN d.v THEN Raised("KeyError")
    ELSE d.v[choose_key(key, d)]

\* `v.pop(choose_key(v))` for a flattened sub-row v.
Popped_Kept(v, key) == v

Popped(v, key) ==
    IF choose_key(key, v) \notin DOMAIN v.v THEN Raised("KeyError")
    ELSE Mapping([k \in DOMAIN v.v \ {choose_key(key, v)} |-> v.v[k]])

\* The order in which the items of a dict are visited: dicts are taken to
\* hold their keys in this order.
KeyOrder == << "id", "type", "x", "a", "b" >>

Position(k) == CHOOSE i \in 1..Len(KeyOrder) : KeyOrder[i] = k

FirstKey(K) == CHOOSE k \in K : \A j \in K : Position(k) <= Position(j)

RECURSIVE flatten_dict(_, _)
RECURSIVE flatten_dict_list(_, _)

\* The value stored for the element d of a list of dicts:
\* `Zendesk.flatten_dict_list(d, key)`.
SubRow_Unflattened(d, key) == d

SubRow(d, key) == flatten_dict_list(d, key)

\* What building the entry of element d raises, if anything: the subscript
\* first, then the recursive call, then the hashing of the key (a list or
\* a dict is unhashable: TypeError).
EntryRaised(d, key) ==
    IF ElementKey(d, key).t = "raise" THEN ElementKey(d, key)
    ELSE IF SubRow(d, key).t = "raise" THEN SubRow(d, key)
    ELSE IF ElementKey(d, key).t # "s" THEN Raised("TypeError")
    ELSE Scalar("ok")

\* flatten_dict(d, key):
\* `{ k: Zendesk.flatten_dict_list(v, key) for k, v in d.items() }`; the
\* first item whose flattening raises ends the call.
flatten_dict(d, key) ==
    LET vals == [k \in DOMAIN d.v |-> flatten_dict_list(d.v[k], key)]
        bad == { k \in DOMAIN d.v : vals[k].t = "raise" }
    IN  IF bad # {} THEN vals[FirstKey(bad)] ELSE Mapping(vals)

\* flatten_dict_list(dlist, key): a scalar, or a list whose first element
\* is a scalar, is returned as it is; a dict goes to flatten_dict; any other
\* list becomes a dict keyed by each element's discriminator value (the
\* last element wins for a repeated value), from whose sub-rows the
\* discriminator is then popped.
flatten_dict_list(dlist, key) ==
    IF wrong_type(dlist)
         \/ (dlist.t = "l" /\ Len(dlist.v) > 0 /\ wrong_type(dlist.v[1]))
    THEN dlist
    ELSE IF dlist.t = "d" THEN flatten_dict(dlist, key)
    ELSE
    LET n == Len(dlist.v)
        bad == { i \in 1..n : EntryRaised(dlist.v[i], key).t = "raise" }
        first == CHOOSE i \in bad : \A j \in bad : i <= j
        keys == { ElementKey(dlist.v[i], key).v : i \in 1..n }
        last(k) == CHOOSE i \in 1..n :
                      /\ ElementKey(dlist.v[i], key).v = k
                      /\ \A j \in (i + 1)..n :
                            ElementKey(dlist.v[j], key).v # k
        flattened == [k \in keys |-> Popped(SubRow(dlist.v[last(k)], key), key)]
        unpopped == { k \in keys : flattened[k].t = "raise" }
    IN  IF bad # {} THEN EntryRaised(dlist.v[first], key)
        ELSE IF unpopped # {} THEN Raised("KeyError")
        ELSE Mapping(flattened)

\* The calls of flatten_dict and of flatten_dict_list tried.
FlattenDictCalls ==
    [fn : {"flatten_dict"}, d : FlattenRecords, key : DiscriminatorKeys,
     returned : {FALSE}, out : {Scalar("none")},
     again : {FALSE}, out2 : {Scalar("none")}]

FlattenDictListCalls ==
    [fn : {"flatten_dict_list"},
     dlist : RowLists \cup NestedLists \cup OtherLists,
     key : DiscriminatorKeys, returned : {FALSE}, out : {Scalar("none")}]

\* flatten_dict is applied to the record at hand.
FlattenDict ==
    /\ pure.fn = "flatten_dict"
    /\ ~pure.returned
    /\ pure' = [pure EXCEPT !.returned = TRUE,
                            !.out = flatten_dict(pure.d, pure.key)]
    /\ UNCHANGED sinkvars

\* flatten_dict is applied to what the first call returned.
FlattenDictAgain ==
    /\ pure.fn = "flatten_dict"
    /\ pure.returned /\ ~pure.again
    /\ pure.out.t # "raise"
    /\ pure' = [pure EXCEPT !.again = TRUE,
                            !.out2 = flatten_dict(pure.out, pure.key)]
    /\ UNCHANGED sinkvars

\* flatten_dict_list is applied to the list at hand.
FlattenDictList ==
    /\ pure.fn = "flatten_dict_list"
    /\ ~pure.returned
    /\ pure' = [pure EXCEPT !.returned = TRUE,
                            !.out = flatten_dict_list(pure.dlist, pure.key)]
    /\ UNCHANGED sinkvars


\* =====================================================================
\* Chat extractor: ZenChat.format_chat_history
\* (ZDBC.extract_chat_history_from_event yields the same rows)
\* =====================================================================

\* The longest chat history tried.
MaxHistory == 3

\* The entries of a history: dicts with a 'type', and one without it.
HistoryEntries ==
    { Mapping([k \in {"type"} |-> Scalar(t)]) :
        t \in { "ChatMessage", "Typing", "ChatJoin" } }
        \cup { Mapping([k \in {"text"} |-> Scalar("a")]) }

\* The events handed over: event['id'] and event['value']['history'].
ChatEvents == [id : {7, 8}, history : Seqs(HistoryEntries, MaxHistory)]

\* The idx that enumerate() gives the i-th entry (i counted from 1) of the
\* history: its zero-based position in the whole list.
enumerate_Renumbered(history, i) ==
    Cardinality({ j \in 1..(i - 1) :
                    /\ "type" \in DOMAIN history[j].v
                    /\ history[j].v["type"] = Scalar("ChatMessage") })

enumerate(history, i) == i - 1

\* f"{event['id']}-{idx}"
ChatRowId(event, index) == << event.id, "-", index >>

\* The rows built from the first n entries of the history:
\* `history['type']` raises KeyError for an entry without a type, an entry
\* of type ChatMessage gives a row, any other entry nothing.
RECURSIVE ChatRows(_, _, _)
ChatRows(event, ticket_id, n) ==
    IF n = 0 THEN Listing(<< >>)
    ELSE LET before == ChatRows(event, ticket_id, n - 1)
             entry == event.history[n]
         IN  IF before.t = "raise" THEN before
             ELSE IF "type" \notin DOMAIN entry.v THEN Raised("KeyError")
             ELSE IF entry.v["type"] # Scalar("ChatMessage") THEN before
             ELSE Listing(Append(before.v,
                     [ticket_id |-> ticket_id,
                      id |-> ChatRowId(event, enumerate(event.history, n)),
                      content |-> entry,
                      chat_id |-> event.id]))

format_chat_history(event, ticket_id) ==
    ChatRows(event, ticket_id, Len(event.history))

FormatChatHistoryCalls ==
    [fn : {"format_chat_history"}, event : ChatEvents, ticket_id : {1},
     returned : {FALSE}, out : {Scalar("none")}]

\* format_chat_history is applied to the event at hand.
FormatChatHistory ==
    /\ pure.fn = "format_chat_history"
    /\ ~pure.returned
    /\ pure' = [pure EXCEPT
                  !.returned = TRUE,
                  !.out = format_chat_history(pure.event, pure.ticket_id)]
    /\ UNCHANGED sinkvars


\* =====================================================================
\* SLA extractor: ZenSLA.is_sla_change, format_event and
\* extract_sla_changes_from (ZDBC.is_sla_change, format_event and
\* extract_sla_history are the same code)
\* =====================================================================

\* What event['via'] can be: a dict without 'source', with a 'source'
\* without 'rel', or with a 'source' whose 'rel' is the SLA marker or
\* another value.
Vias ==
    { Mapping(<< >>),
      Mapping([k \in {"source"} |-> Mapping(<< >>)]) }
        \cup { Mapping([k \in {"source"} |->
                          Mapping([j \in {"rel"} |-> Scalar(r)])]) :
                 r \in { "sla_target_change", "rule" } }

\* The events of an audit: an 'id', a 'type' or none, a 'via' or none.
SlaEvents ==
    { Mapping([k \in {"id"} \cup T \cup V |->
                 IF k = "id" THEN Scalar("e5")
                 ELSE IF k = "type" THEN Scalar(t) ELSE via]) :
        T \in SUBSET {"type"}, t \in {"Change", "Create"},
        V \in SUBSET {"via"}, via \in Vias }

\* d[k] for a dict d: KeyError when k is not a key of d.
Subscript(d, k) == IF k \in DOMAIN d.v THEN d.v[k] ELSE Raised("KeyError")

\* is_sla_change(event):
\* `event['type'] =='Change' and 'via' in event and
\*  event['via']['source']['rel'] == 'sla_target_change'`,
\* evaluated from the left, each subscript raising KeyError on a missing
\* key; the outcome is "True", "False" or the exception raised.
is_sla_change(event) ==
    IF Subscript(event, "type").t = "raise" THEN "KeyError"
    ELSE IF event.v["type"] # Scalar("Change") THEN "False"
    ELSE IF "via" \notin DOMAIN event.v THEN "False"
    ELSE IF Subscript(event.v["via"], "source").t = "raise" THEN "KeyError"
    ELSE IF Subscript(event.v["via"].v["source"], "rel").t = "raise"
    THEN "KeyError"
    ELSE IF event.v["via"].v["source"].v["rel"] = Scalar("sla_target_change")
    THEN "True"
    ELSE "False"

\* The audits handed over: 'id' and 'created_at'.
SlaAudit == [id |-> "a3", created_at |-> "t1"]

\* format_event(event, audit, ticket_id): the event's items but
\* 'previous_value', then 'id', 'event_id', 'audit_id', 'ticket_id' and
\* 'changed_at', which replace items of the same name.
format_event(event, audit, ticket_id) ==
    LET enrichment ==
            "id" :> Scalar(<< audit.id, "-", event.v["id"].v >>)
            @@ "event_id" :> event.v["id"]
            @@ "audit_id" :> Scalar(audit.id)
            @@ "ticket_id" :> Scalar(ticket_id)
            @@ "changed_at" :> Scalar(audit.created_at)
    IN  Mapping([k \in (DOMAIN event.v \ {"previous_value"})
                          \cup DOMAIN enrichment |->
                    IF k \in DOMAIN enrichment THEN enrichment[k]
                    ELSE event.v[k]])

\* The rows the generator of extract_sla_changes_from has yielded after the
\* first n events of the audit, and the exception that ended it, if any.
RECURSIVE SlaRows(_, _, _, _)
SlaRows(events, audit, ticket_id, n) ==
    IF n = 0 THEN [rows |-> << >>, raised |-> "none"]
    ELSE LET before == SlaRows(events, audit, ticket_id, n - 1)
         IN  IF before.raised # "none" THEN before
             ELSE IF is_sla_change(events[n]) = "KeyError"
             THEN [before EXCEPT !.raised = "KeyError"]
             ELSE IF is_sla_change(events[n]) = "True"
             THEN [before EXCEPT !.rows =
                     Append(@, format_event(events[n], audit, ticket_id))]
             ELSE before

extract_sla_changes_from(ticket_id, audit, events) ==
    SlaRows(events, audit, ticket_id, Len(events))

ExtractSlaCalls ==
    [fn : {"extract_sla_changes_from"}, ticket_id : {1}, audit : {SlaAudit},
     events : Seqs(SlaEvents, MaxLen),
     returned : {FALSE}, out : {Scalar("none")}]

\* The generator of extract_sla_changes_from is run to its end.
ExtractSlaChanges ==
    /\ pure.fn = "extract_sla_changes_from"
    /\ ~pure.returned
    /\ pure' = [pure EXCEPT
                  !.returned = TRUE,
                  !.out = extract_sla_changes_from(pure.ticket_id, pure.audit,
                                                   pure.events)]
    /\ UNCHANGED sinkvars


\* =====================================================================
\* Field-change extractor: ZenAudit.field_events
\* =====================================================================

\* The events of an audit: an 'id', a 'type', a 'field_name' or none, and
\* possibly an attribute named 'ticket_id'.
FieldEvents ==
    { Mapping([k \in {"id", "type"} \cup F \cup X |->
                 IF k = "id" THEN Scalar("e5")
                 ELSE IF k = "type" THEN Scalar(t)
                 ELSE IF k = "field_name" THEN Scalar(f)
                 ELSE Scalar("t9")]) :
        t \in {"Change", "Create", "Comment"},
        F \in SUBSET {"field_name"}, f \in {"status", "priority"},
        X \in SUBSET {"ticket_id"} }

\* The audits: 'id', 'created_at' and at most one event.
FieldAudits ==
    [id : {"a3"}, created_at : {"t1"}, events : Seqs(FieldEvents, 1)]

\* What the upstream API holds for the ticket: one audit with a change of
\* status.
UpstreamAudits ==
    << [id |-> "a4", created_at |-> "t2",
        events |-> << Mapping([k \in {"id", "type", "field_name"} |->
                         IF k = "id" THEN Scalar("e6")
                         ELSE IF k = "type" THEN Scalar("Change")
                         ELSE Scalar("status")]) >>] >>

\* The audit_iter argument: None (the default) or a list of audits.
AuditIters ==
    { [given |-> FALSE, list |-> << >>] }
        \cup { [given |-> TRUE, list |-> q] : q \in Seqs(FieldAudits, MaxLen) }

\* `audit_iter or self.get_ticket_audits(ticket_id)`: None and the empty
\* list are false, so both make the call to the API.
Provided(audit_iter) == audit_iter.given /\ Len(audit_iter.list) > 0

\* The (audit, event) pairs in the order of
\* `for audit in audits for event in audit.events`.
RECURSIVE AuditEventPairs(_, _)
AuditEventPairs(audits, n) ==
    IF n = 0 THEN << >>
    ELSE AuditEventPairs(audits, n - 1)
           \o [i \in 1..Len(audits[n].events) |->
                 [audit |-> audits[n], event |-> audits[n].events[i]]]

\* The row of field_events for an event: 'ticket_id' and 'changed_at', then
\* the event's items but 'field_name', then 'id', 'audit_id' and
\* 'event_id'; a later item replaces an earlier one of the same name.
field_event_row(event, audit, ticket_id) ==
    LET head == "ticket_id" :> Scalar(ticket_id)
                @@ "changed_at" :> Scalar(audit.created_at)
        tail == "id" :> Scalar(<< audit.id, "-", event.v["id"].v >>)
                @@ "audit_id" :> Scalar(audit.id)
                @@ "event_id" :> event.v["id"]
        items == DOMAIN event.v \ {"field_name"}
    IN  Mapping([k \in DOMAIN head \cup items \cup DOMAIN tail |->
                    IF k \in DOMAIN tail THEN tail[k]
                    ELSE IF k \in items THEN event.v[k]
                    ELSE head[k]])

\* `(event['type'] == 'Change' or event['type'] == 'Create') and
\*  event['field_name'] == field_name`: "True", "False" or the exception.
is_field_event(event, field_name) ==
    IF event.v["type"] \notin { Scalar("Change"), Scalar("Create") }
    THEN "False"
    ELSE IF Subscript(event, "field_name").t = "raise" THEN "KeyError"
    ELSE IF event.v["field_name"] = Scalar(field_name) THEN "True"
    ELSE "False"

\* The rows the generator has yielded after the first n pairs, and the
\* exception that ended it, if any.
RECURSIVE FieldRows(_, _, _, _)
FieldRows(pairs, ticket_id, field_name, n) ==
    IF n = 0 THEN [rows |-> << >>, raised |-> "none"]
    ELSE LET before == FieldRows(pairs, ticket_id, field_name, n - 1)
             hit == is_field_event(pairs[n].event, field_name)
         IN  IF before.raised # "none" THEN before
             ELSE IF hit = "KeyError"
             THEN [before EXCEPT !.raised = "KeyError"]
             ELSE IF hit = "True"
             THEN [before EXCEPT !.rows =
                     Append(@, field_event_row(pairs[n].event,
                                               pairs[n].audit, ticket_id))]
             ELSE before

\* field_events(ticket_id, field_name, audit_iter): the audits iterated,
\* the number of calls of get_ticket_audits, and the generator's outcome.
field_events(ticket_id, field_name, audit_iter) ==
    LET audits == IF Provided(audit_iter) THEN audit_iter.list
                  ELSE UpstreamAudits
        pairs == AuditEventPairs(audits, Len(audits))
        run == FieldRows(pairs, ticket_id, field_name, Len(pairs))
    IN  [audits |-> audits,
         fetches |-> IF Provided(audit_iter) THEN 0 ELSE 1,
         rows |-> run.rows,
         raised |-> run.raised]

FieldEventsCalls ==
    [fn : {"field_events"}, ticket_id : {"t1"}, field_name : {"status"},
     audit_iter : AuditIters, returned : {FALSE}, out : {Scalar("none")}]

\* field_events is called and its generator run to its end.
FieldEventsCall ==
    /\ pure.fn = "field_events"
    /\ ~pure.returned
    /\ pure' = [pure EXCEPT
                  !.returned = TRUE,
                  !.out = field_events(pure.ticket_id, pure.field_name,
                                       pure.audit_iter)]
    /\ UNCHANGED sinkvars


\* =====================================================================
\* SQL encoding: Zendesk.parse_value and Zendesk.sql_columns_and_values
\* =====================================================================

\* The values of a row's fields: None, the empty str, an ISO date, a str
\* that is no date, a str holding a number, and an int.
NoneValue == [t |-> "none", v |-> "None"]
IntValue(n) == [t |-> "i", v |-> n]

FieldValues ==
    { NoneValue, Scalar(""), Scalar("2024-01-02T03:04:05Z"), Scalar("soon"),
      Scalar("1"), IntValue(5) }

\* The SQL types of the descriptors.
FieldTypes == { "datetime", "date", "bit", "bigint", "varchar(max)" }

\* The column of the i-th descriptor of a type_list.
ColumnNames == << "c1", "c2", "c3", "c4" >>

\* The descriptors ('column', 'value', 'type') of the i-th field.
Descriptors(i) ==
    [column : {ColumnNames[i]}, value : FieldValues, type : FieldTypes]

\* The type_lists: one descriptor per column, up to MaxLen columns.
TypeLists ==
    UNION { { q \in [1..n -> UNION { Descriptors(i) : i \in 1..n }] :
                \A i \in 1..n : q[i] \in Descriptors(i) } : n \in 0..MaxLen }

\* iso_date_to_datetime(v).strftime('%Y-%m-%d %H:%M:%S'): the local time
\* of an ISO date; a bare number is read as a day of the current month;
\* date_parser.parse raises for a str that is no date and for an int.
Strftime(v) ==
    IF v = Scalar("2024-01-02T03:04:05Z") THEN "2024-01-02 03:04:05"
    ELSE IF v = Scalar("1") THEN "YYYY-MM-01 00:00:00"
    ELSE "ParserError"

\* The try/except around the date conversion: any exception gives NULL.
DateLiteral_Uncaught(v) ==
    IF Strftime(v) = "ParserError"
    THEN [sql |-> << >>, raised |-> "ParserError"]
    ELSE [sql |-> << "'", Strftime(v), "'" >>, raised |-> "none"]

DateLiteral(v) ==
    IF Strftime(v) = "ParserError"
    THEN [sql |-> << "NULL" >>, raised |-> "none"]
    ELSE [sql |-> << "'", Strftime(v), "'" >>, raised |-> "none"]

\* str(int(v)): ValueError for a str that holds no number.
BitLiteral(v) ==
    IF v.t = "i" THEN [sql |-> << v.v >>, raised |-> "none"]
    ELSE IF v = Scalar("1") THEN [sql |-> << 1 >>, raised |-> "none"]
    ELSE [sql |-> << >>, raised |-> "ValueError"]

\* `'int' in t`: the type names holding 'int'.
HasInt(t) == t = "bigint"

\* parse_value(data): the SQL text for the value of a descriptor, as the
\* sequence of its parts, and the exception raised, if any.
parse_value(data) ==
    IF data.value = NoneValue \/ data.value = Scalar("")
    THEN [column |-> data.column, sql |-> << "NULL" >>, raised |-> "none"]
    ELSE IF data.type \in {"datetime", "date"}
    THEN [column |-> data.column] @@ DateLiteral(data.value)
    ELSE IF data.type = "bit"
    THEN [column |-> data.column] @@ BitLiteral(data.value)
    ELSE IF HasInt(data.type)
    THEN [column |-> data.column, sql |-> << data.value.v >>,
          raised |-> "none"]
    ELSE [column |-> data.column, sql |-> << "N'", data.value.v, "'" >>,
          raised |-> "none"]

\* sql_columns_and_values(tl) for the type_list tl: the columns, and the
\* values of dict(map(parse_value, tl)) in the order of the list; the first
\* parse_value that raises ends the call.
sql_columns_and_values(tl) ==
    LET parsed == [i \in 1..Len(tl) |-> parse_value(tl[i])]
        bad == { i \in 1..Len(tl) : parsed[i].raised # "none" }
    IN  [columns |-> [i \in 1..Len(tl) |-> tl[i].column],
         values |-> [i \in 1..Len(tl) |-> parsed[i].sql],
         raised |-> IF bad = {} THEN "none"
                    ELSE parsed[CHOOSE i \in bad : \A j \in bad : i <= j].raised]

SqlColumnsAndValuesCalls ==
    [fn : {"sql_columns_and_values"}, type_list : TypeLists,
     returned : {FALSE}, out : {Scalar("none")}]

\* sql_columns_and_values is applied to the type_list at hand.
SqlColumnsAndValues ==
    /\ pure.fn = "sql_columns_and_values"
    /\ ~pure.returned
    /\ pure' = [pure EXCEPT
                  !.returned = TRUE,
                  !.out = sql_columns_and_values(pure.type_list)]
    /\ UNCHANGED sinkvars


\* =====================================================================
\* Ticket type mapper: TicketMixin.ticket_field_types
\* =====================================================================

\* The column of a custom field, 'custom_fields.7', as the pieces
\* split('.') separates.
Name_custom7 == << "custom_fields", ".", "7" >>

\* `'custom_fields.' in field_name`
IsCustomField(field_name) ==
    \E i \in 1..(Len(field_name) - 1) :
        field_name[i] = "custom_fields" /\ field_name[i + 1] = "."

\* `str(int(field_name.split('.')[1]))`: the piece after the first dot (a
\* decimal identifier without leading zeros reads back as itself).
CustomFieldId(field_name) ==
    field_name[(CHOOSE i \in 1..Len(field_name) :
                    /\ field_name[i] = "."
                    /\ \A j \in 1..(i - 1) : field_name[j] # ".") + 1]

\* f'varchar({max_char * varchar_buffer})' for the tagger field tried: its
\* longest option name has 3 characters, the buffer is the default 5.
TaggerType == "varchar(15)"

\* The raw types of the ticket tables tried (raw_ticket_field_types): the
\* pandas dtype of an ordinary column, the Zendesk type of a custom field.
RawTicketTypes ==
    { [f \in { Name_d_at, Name_id, Name_custom7 } |->
          IF f = Name_d_at THEN a ELSE IF f = Name_id THEN "int64" ELSE c] :
      a \in { "object", "int64" }, c \in { "tagger", "text" } }

\* The configurations tried: 'except' is keyed by custom field id.
TicketMappingDicts ==
    [direct : Dicts({"int64", "object"}, DirectTypes),
     date_fields : SUBSET { Name_d_at, Name_custom7 },
     except : Dicts({"7"}, ExceptTypes)]

\* The custom-field branch of the loop body: the tagger width, then the
\* 'except' entry of the field id, each replacing what was chosen before.
CustomFieldType(mapping_dict, field_name, t, chosen) ==
    IF CustomFieldId(field_name) \in DOMAIN mapping_dict.except
    THEN mapping_dict.except[CustomFieldId(field_name)]
    ELSE IF t = "tagger" THEN TaggerType
    ELSE chosen

\* One round of the loop of ticket_field_types: 'direct' by raw type, then
\* 'datetime' for a name listed in date_fields, then the custom-field
\* branch; a field no rule matches keeps its raw type.
ticket_field_type(mapping_dict, field_name, t) ==
    LET direct == IF t \in DOMAIN mapping_dict.direct
                  THEN mapping_dict.direct[t] ELSE t
        dated == IF field_name \in mapping_dict.date_fields
                 THEN "datetime" ELSE direct
    IN  IF IsCustomField(field_name)
        THEN CustomFieldType(mapping_dict, field_name, t, dated)
        ELSE dated

ticket_field_types(mapping_dict, raw_types) ==
    [f \in DOMAIN raw_types |->
        ticket_field_type(mapping_dict, f, raw_types[f])]

\* The calls of ticket_field_types tried.
TicketFieldTypesCalls ==
    [fn : {"ticket_field_types"}, mapping_dict : TicketMappingDicts,
     raw_types : RawTicketTypes, returned : {FALSE}, out : {"none"}]

\* ticket_field_types is applied to the table at hand.
TicketFieldTypes ==
    /\ pure.fn = "ticket_field_types"
    /\ ~pure.returned
    /\ pure' = [pure EXCEPT
                  !.returned = TRUE,
                  !.out = ticket_field_types(pure.mapping_dict,
                                             pure.raw_types)]
    /\ UNCHANGED sinkvars

\* =====================================================================
\* The pure functions on their own: one call each, the sink at rest
\* =====================================================================

PureCalls ==
    MapTypeCalls
        \cup FlattenDictCalls
        \cup FlattenDictListCalls
        \cup FormatChatHistoryCalls
        \cup ExtractSlaCalls
        \cup FieldEventsCalls
        \cup SqlColumnsAndValuesCalls
        \cup TicketFieldTypesCalls

InitPure == SinkInit /\ committed = NoTable /\ pure \in PureCalls

NextPure ==
    \/ MapType
    \/ FlattenDict
    \/ FlattenDictAgain
    \/ FlattenDictList
    \/ FormatChatHistory
    \/ ExtractSlaChanges
    \/ FieldEventsCall
    \/ SqlColumnsAndValues
    \/ TicketFieldTypes

SpecPure == InitPure /\ [][NextPure]_vars

\* =====================================================================
\* Properties
\* =====================================================================

\* The positions in the log of the statements of the given kinds.
Sent(kinds) == { k \in 1..Len(log) : log[k].kind \in kinds }

Writes == Cardinality(Sent({"insert", "update"}))
Inserts == Cardinality(Sent({"insert"}))
Updates == Cardinality(Sent({"update"}))

\* A default append_obj(row) finished without any driver failure, right
\* after such a call for the same row that found the id new to the table.
SecondAppend ==
    /\ pc = "done"
    /\ call.op = "append_obj"
    /\ call.recache /\ ~call.force
    /\ ~failed
    /\ prev # NoRow /\ call.row = prev

\* C1: two consecutive append_obj(row, force=False) calls for a row whose id
\* is new to the table, with every database call succeeding, issue exactly
\* one INSERT/UPDATE in total: the first call writes once and returns True,
\* the second writes nothing and returns False.
Thm_C1_AppendTwiceWritesOnce ==
    /\ (pc = "done" /\ FirstAppend) => (ret = "True" /\ Writes = 1)
    /\ SecondAppend => (ret = "False" /\ Writes = 0)

Wit_C1_SecondAppendSkipped == SecondAppend /\ ret = "False"

\* A forced default-recache append_obj of a row whose id the table holds
\* finished without any driver failure.
ForcedAppend ==
    /\ pc = "done"
    /\ call.op = "append_obj"
    /\ call.recache /\ call.force
    /\ pre.inTable
    /\ ~failed

AppendDone == pc = "done" /\ call.op \in {"append_obj", "append_ticket"}

\* C3: an append_obj that starts while the table does not exist (its
\* identifier SELECT is answered with 42S02) issues a CREATE TABLE before the
\* INSERT of its row.
Cex_C3_CreateBeforeInsert ==
    (pc = "done" /\ call.op = "append_obj" /\ call.recache /\ ~pre.exists
        /\ Inserts > 0) =>
        \E c \in Sent({"create"}) : \A k \in Sent({"insert"}) : c < k

\* C4: append_obj and append_ticket return True only if the INSERT/UPDATE
\* was executed: not when the executor gave up on it.
Cex_C4_TrueOnlyIfWritten ==
    (AppendDone /\ ret = "True") => res.kind = "ok"

\* C5: append_obj of a row that has an id never raises, whatever driver
\* calls fail: it ends by returning True or False.
Cex_C5_AppendObjNeverRaises ==
    (pc = "done" /\ call.op = "append_obj" /\ call.row.id # NoId) =>
        ret \in {"True", "False"}

\* A direct call execute(statement, tries) has finished.
ExecuteDone == pc = "done" /\ call.op = "execute"

\* The driver failed the first N executions and succeeded on the next one,
\* with N < tries.
SucceededAfterFewerThanTries ==
    ExecuteDone /\ ex.ok /\ ex.attempts - 1 < call.tries

\* C6: when the driver fails the first N < tries executions and succeeds
\* on execution N+1, execute returns the result of that execution; it does
\* not stop before execution N+1.
Thm_C6_ExecuteReturnsRetriedResult ==
    /\ SucceededAfterFewerThanTries =>
            (ret = "result" /\ res.kind = "ok" /\ res.val = ex.val)
    /\ (ExecuteDone /\ ~ex.ok) => ex.attempts >= call.tries

Wit_C6_SucceededOnRetry ==
    SucceededAfterFewerThanTries /\ ex.attempts >= 2 /\ res.val # {}

\* C7: every retry of execute is preceded by a reconnect: N failed
\* executions followed by a success mean N reconnects.
Cex_C7_ReconnectPerRetry ==
    SucceededAfterFewerThanTries => ex.reconnects = ex.attempts - 1

\* C8: execute(statement, tries) with tries >= 1 whose every execution
\* fails ends after tries + 1 executions, returns None and raises nothing.
Thm_C8_ExecuteGivesUpSilently ==
    /\ (ExecuteDone /\ call.tries >= 1 /\ ~ex.ok) =>
            (ret = "None" /\ res.kind = "none"
             /\ ex.attempts = call.tries + 1)
    /\ (pc = "execute" /\ call.op = "execute") =>
            ex.tries + ex.attempts = call.tries

Wit_C8_GaveUp ==
    ExecuteDone /\ call.tries >= 1 /\ ~ex.ok /\ ret = "None"

\* C9: commit(tries=k) makes at most k attempts.
Cex_C9_CommitBoundedByTries ==
    (call.op = "commit" /\ call.tries >= 1) => cm.attempts <= call.tries

\* append_ticket finished for a closed ticket whose id was in the
\* identifier cache when the call started.
ClosedCachedTicket ==
    /\ pc = "done"
    /\ call.op = "append_ticket"
    /\ call.row.status = "closed"
    /\ pre.inCache

\* C10: for a closed ticket whose id is cached, append_ticket without
\* force_update returns False having sent nothing (no ALTER, INSERT, UPDATE
\* or commit); with force_update it runs to the write, which is one UPDATE by
\* the ticket's id and no INSERT.
Thm_C10_ClosedTicketSkippedUnlessForced ==
    ClosedCachedTicket =>
        /\ ~call.force => (ret = "False" /\ log = << >>)
        /\ (call.force /\ (ret = "True" \/ ~failed)) =>
                /\ ret = "True"
                /\ Inserts = 0
                /\ Updates = 1
                /\ \A k \in Sent({"update"}) : log[k].id = call.row.id

Wit_C10_ClosedTicketSkipped ==
    ClosedCachedTicket /\ ~call.force /\ ret = "False"

\* A finished append_ticket that did not skip its ticket, on a sink none of
\* whose driver calls has failed since it was built.
TicketNotSkipped ==
    /\ pc = "done"
    /\ call.op = "append_ticket"
    /\ ret # "False"
    /\ clean

\* On a sink without a failed driver call, a ticket that is not skipped gets
\* one INSERT when its id is not in the table and one UPDATE by its id when
\* it is.
TicketInsertOrUpdateWhenClean ==
    TicketNotSkipped =>
        /\ ret = "True"
        /\ IF pre.inTable
           THEN /\ Updates = 1 /\ Inserts = 0
                /\ \A k \in Sent({"update"}) : log[k].id = call.row.id
           ELSE Inserts = 1 /\ Updates = 0

\* C11: for every ticket that append_ticket does not skip, an id that is not
\* in the table gets exactly one INSERT and no UPDATE, whatever the status,
\* and an id that is in the table gets exactly one UPDATE keyed by that id
\* and no INSERT.  Judged on calls that returned True and during which no
\* driver call failed.
Cex_C11_TicketInsertOrUpdate ==
    (pc = "done" /\ call.op = "append_ticket" /\ ret = "True" /\ ~failed) =>
        IF pre.inTable
        THEN /\ Updates = 1 /\ Inserts = 0
             /\ \A k \in Sent({"update"}) : log[k].id = call.row.id
        ELSE Inserts = 1 /\ Updates = 0

\* C12: append_obj on a row without an id ends at once with KeyError: no
\* statement is sent and the identifier cache, the column cache and the
\* table are as they were when the call started.
Thm_C12_NoIdRaisesBeforeAnything ==
    (call.op = "append_obj" /\ call.row.id = NoId) =>
        /\ pc = "done"
        /\ ret = "KeyError"
        /\ log = << >>
        /\ ex = NoFrame /\ cm = NoCommit
        /\ id_cache = pre.ids
        /\ table_columns = pre.cols
        /\ RowCount(working) = pre.rows

Wit_C12_NoIdRaised ==
    /\ pc = "done"
    /\ call.op = "append_obj"
    /\ call.row.id = NoId
    /\ ret = "KeyError"
    /\ ~pre.ids.none

\* C13: right after an append_obj or append_ticket that returned True the
\* row's id is in the identifier cache, and the call sent no identifier
\* SELECT after its INSERT or UPDATE.
Thm_C13_WriteThrough ==
    (AppendDone /\ ret = "True") =>
        /\ ~id_cache.none
        /\ call.row.id \in id_cache.ids
        /\ \A w \in Sent({"insert", "update"}) :
               \A k \in Sent({"select_ids"}) : k < w

Wit_C13_NewIdWrittenThrough ==
    /\ AppendDone
    /\ ret = "True"
    /\ call.op = "append_ticket"
    /\ ~pre.inCache
    /\ Inserts = 1

\* C14: after any append call, failed driver calls included, every id in
\* the identifier cache is the id of a row of the table.
Cex_C14_CacheMirrorsTable ==
    AppendDone => id_cache.ids \subseteq TableIds(working)

\* A finished call of map_type.
Mapped == pure.fn = "map_type" /\ pure.returned

\* C15: map_type returns 'datetime' for every field listed in date_fields
\* that also has an except entry, whatever the observed type and the direct
\* section are.
Thm_C15_DateBeatsExcept ==
    ( /\ Mapped
      /\ pure.column \in pure.mapping_dict.date_fields
      /\ pure.column \in DOMAIN pure.mapping_dict.except ) =>
        pure.out = "datetime"

Wit_C15_ListedDateWithExcept ==
    /\ Mapped
    /\ pure.column = Name_id
    /\ pure.column \in pure.mapping_dict.date_fields
    /\ pure.column \in DOMAIN pure.mapping_dict.except
    /\ pure.pd_type \in DOMAIN pure.mapping_dict.direct
    /\ pure.out = "datetime"

\* C16: map_type returns 'datetime' for every field name whose last three
\* characters are '_at', also when the name is in none of date_fields,
\* except and direct, whatever the observed type.
Thm_C16_SuffixIsDate ==
    ( /\ Mapped
      /\ Len(pure.column) >= 3
      /\ \A i \in 1..3 :
            pure.column[Len(pure.column) - 3 + i] = << "_", "a", "t" >>[i] ) =>
        pure.out = "datetime"

Wit_C16_UnlistedSuffix ==
    /\ Mapped
    /\ pure.column = Name_d_at
    /\ pure.column \notin pure.mapping_dict.date_fields
    /\ pure.column \notin DOMAIN pure.mapping_dict.except
    /\ pure.mapping_dict.direct = << >>
    /\ pure.out = "datetime"

\* C17: for a field that is not a date field, an except override has the
\* highest precedence: whenever the name has an entry in except, map_type
\* returns that entry, also when the observed type has an entry in direct.
Cex_C17_ExceptBeatsDirect ==
    ( /\ Mapped
      /\ ~IsDate(pure.mapping_dict, pure.column)
      /\ pure.column \in DOMAIN pure.mapping_dict.except ) =>
        pure.out = pure.mapping_dict.except[pure.column]

\* C18: flatten_dict is idempotent: whenever flatten_dict(x, k) returns,
\* flatten_dict applied to its result with the same k returns an equal value.
Thm_C18_FlattenIdempotent ==
    (pure.fn = "flatten_dict" /\ pure.again) =>
        /\ pure.out2.t # "raise"
        /\ pure.out2 = pure.out

Wit_C18_FlattenedTwice ==
    /\ pure.fn = "flatten_dict"
    /\ pure.again
    /\ pure.out # pure.d
    /\ pure.out.v["x"].t = "d"
    /\ \E a \in DOMAIN pure.out.v["x"].v :
          pure.out.v["x"].v[a].t = "d" /\ "x" \in DOMAIN pure.out.v["x"].v[a].v
    /\ pure.out2 = pure.out

\* The discriminator value of the element d: d[choose_key(d)].
Discriminator(d, key) == d.v[choose_key(key, d)]

\* Every list of mappings in x, at any depth, has only elements that carry
\* a discriminator key with a scalar value.
RECURSIVE WellKeyed(_, _)
WellKeyed(x, key) ==
    IF x.t = "s" THEN TRUE
    ELSE IF x.t = "d" THEN \A k \in DOMAIN x.v : WellKeyed(x.v[k], key)
    ELSE IF Len(x.v) > 0 /\ x.v[1].t = "s" THEN TRUE
    ELSE \A i \in 1..Len(x.v) :
            /\ x.v[i].t = "d"
            /\ choose_key(key, x.v[i]) \in DOMAIN x.v[i].v
            /\ Discriminator(x.v[i], key).t = "s"
            /\ WellKeyed(x.v[i], key)

\* A finished flatten_dict_list on a list of mappings.
ListFlattened ==
    /\ pure.fn = "flatten_dict_list"
    /\ pure.returned
    /\ pure.dlist.t = "l"
    /\ \A i \in 1..Len(pure.dlist.v) : pure.dlist.v[i].t = "d"

\* ... each element of which carries a discriminator key with a value
\* unique in the list.
UniquelyKeyed ==
    /\ ListFlattened
    /\ WellKeyed(pure.dlist, pure.key)
    /\ \A i, j \in 1..Len(pure.dlist.v) :
          i # j => Discriminator(pure.dlist.v[i], pure.key)
                     # Discriminator(pure.dlist.v[j], pure.key)

\* C19: for a list of mappings each carrying a discriminator key with a
\* value unique in the list, flatten_dict_list returns a mapping whose keys
\* are exactly those values and in which no sub-row still holds the
\* discriminator key that keyed it.
Thm_C19_KeyedByDiscriminator ==
    UniquelyKeyed =>
        /\ pure.out.t = "d"
        /\ DOMAIN pure.out.v =
              { Discriminator(pure.dlist.v[i], pure.key).v :
                  i \in 1..Len(pure.dlist.v) }
        /\ \A i \in 1..Len(pure.dlist.v) :
              LET row == pure.out.v[Discriminator(pure.dlist.v[i], pure.key).v]
              IN  /\ row.t = "d"
                  /\ choose_key(pure.key, pure.dlist.v[i]) \notin DOMAIN row.v

Wit_C19_TwoRowsKeyed ==
    /\ UniquelyKeyed
    /\ Len(pure.dlist.v) = 2
    /\ pure.key.keys = << "id", "type" >>
    /\ choose_key(pure.key, pure.dlist.v[1]) # choose_key(pure.key, pure.dlist.v[2])
    /\ Cardinality(DOMAIN pure.out.v) = 2

\* The element d holds none of the candidate keys.
Keyless(d, key) == \A j \in 1..Len(key.keys) : key.keys[j] \notin DOMAIN d.v

\* A finished flatten_dict_list on a list of mappings one of which holds
\* none of the candidate keys.
KeylessElement ==
    /\ ListFlattened
    /\ \E i \in 1..Len(pure.dlist.v) : Keyless(pure.dlist.v[i], pure.key)

\* C20: when a list element contains none of the candidate discriminator
\* keys, flatten_dict_list reports no error: the call completes and returns
\* an output.
Cex_C20_KeylessCompletes == KeylessElement => pure.out.t # "raise"

\* C20, amended: when a list element contains none of the candidate
\* discriminator keys, flatten_dict_list raises and returns nothing; it
\* raises KeyError when that element is the first of the list.
Thm_C20_KeylessRaises ==
    KeylessElement =>
        /\ pure.out.t = "raise"
        /\ Keyless(pure.dlist.v[1], pure.key) => pure.out = Raised("KeyError")

Wit_C20_KeylessRaised ==
    /\ KeylessElement
    /\ ~pure.key.str
    /\ Len(pure.key.keys) = 2
    /\ DOMAIN pure.dlist.v[1].v = {}
    /\ pure.out = Raised("KeyError")

\* A finished format_chat_history on an event all of whose history entries
\* have a type.
ChatFormatted ==
    /\ pure.fn = "format_chat_history"
    /\ pure.returned
    /\ \A i \in 1..Len(pure.event.history) :
          "type" \in DOMAIN pure.event.history[i].v

\* The rows of the output with the id '<event id>-<idx>'.
RowsWithIdx(index) ==
    { k \in 1..Len(pure.out.v) :
        pure.out.v[k].id = << pure.event.id, "-", index >> }

\* C21: for a chat-started event the chat extractor emits exactly one row
\* per history entry of type ChatMessage and none for other entries, and
\* the row's id is '<event id>-<i>' with i the entry's zero-based position
\* in the whole history.
Thm_C21_ChatRowsKeepPosition ==
    ChatFormatted =>
        /\ pure.out.t = "l"
        /\ \A i \in 1..Len(pure.event.history) :
              IF pure.event.history[i].v["type"] = Scalar("ChatMessage")
              THEN /\ Cardinality(RowsWithIdx(i - 1)) = 1
                   /\ \A k \in RowsWithIdx(i - 1) :
                         pure.out.v[k].content = pure.event.history[i]
              ELSE RowsWithIdx(i - 1) = {}
        /\ Len(pure.out.v) =
              Cardinality({ i \in 1..Len(pure.event.history) :
                  pure.event.history[i].v["type"] = Scalar("ChatMessage") })

Wit_C21_MessageAfterTyping ==
    /\ ChatFormatted
    /\ Len(pure.event.history) = 3
    /\ pure.event.history[1].v["type"] = Scalar("Typing")
    /\ pure.event.history[2].v["type"] = Scalar("ChatMessage")
    /\ pure.event.history[3].v["type"] = Scalar("ChatMessage")
    /\ Len(pure.out.v) = 2
    /\ pure.out.v[1].id = << pure.event.id, "-", 1 >>

\* A finished SLA extraction over events that all have a type.
SlaExtracted ==
    /\ pure.fn = "extract_sla_changes_from"
    /\ pure.returned
    /\ \A i \in 1..Len(pure.events) : "type" \in DOMAIN pure.events[i].v

\* The event is a Change whose via.source.rel is 'sla_target_change'.
SlaTargetChange(event) ==
    /\ event.v["type"] = Scalar("Change")
    /\ "via" \in DOMAIN event.v
    /\ "source" \in DOMAIN event.v["via"].v
    /\ "rel" \in DOMAIN event.v["via"].v["source"].v
    /\ event.v["via"].v["source"].v["rel"] = Scalar("sla_target_change")

\* C22: the SLA extractor emits a row for an event only if the event is a
\* Change whose via.source.rel is 'sla_target_change'; every event without
\* such a via.source.rel (no via, no source, no rel, another rel) is left
\* out without an error, also when its type is Change.
Cex_C22_OnlySlaChangesNoError ==
    SlaExtracted =>
        /\ pure.out.raised = "none"
        /\ Len(pure.out.rows) =
              Cardinality({ i \in 1..Len(pure.events) :
                              SlaTargetChange(pure.events[i]) })
        /\ \A k \in 1..Len(pure.out.rows) :
              \E i \in 1..Len(pure.events) :
                 /\ SlaTargetChange(pure.events[i])
                 /\ pure.out.rows[k] =
                      format_event(pure.events[i], pure.audit, pure.ticket_id)

\* C23: when the caller gives field_events an audit list, of any length,
\* the empty list included, the extractor iterates over that list only and
\* makes no fetch of the ticket's audits from the API.
Cex_C23_GivenAuditsNoFetch ==
    (pure.fn = "field_events" /\ pure.returned /\ pure.audit_iter.given) =>
        /\ pure.out.fetches = 0
        /\ pure.out.audits = pure.audit_iter.list

\* The descriptor is a date or datetime field whose value is there but is
\* no date.
UnparseableDate(data) ==
    /\ data.type \in {"datetime", "date"}
    /\ data.value \in { Scalar("soon"), IntValue(5) }

\* The descriptor is a bit field whose value is no number: its encoding
\* raises whatever the other fields hold.
UnencodableBit(data) ==
    /\ data.type = "bit"
    /\ data.value \in { Scalar("soon"), Scalar("2024-01-02T03:04:05Z") }

\* C24: a date or datetime field whose value cannot be parsed as a date is
\* encoded as NULL and raises nothing, so the statement's values are built
\* with the other fields' encodings in place.
Thm_C24_UnparseableDateIsNull ==
    (pure.fn = "sql_columns_and_values" /\ pure.returned) =>
        \A i \in 1..Len(pure.type_list) :
            UnparseableDate(pure.type_list[i]) =>
                /\ pure.out.values[i] = << "NULL" >>
                /\ pure.out.columns[i] = ColumnNames[i]
                /\ (\A j \in 1..Len(pure.type_list) :
                        ~UnencodableBit(pure.type_list[j])) =>
                      /\ pure.out.raised = "none"
                      /\ Len(pure.out.values) = Len(pure.type_list)
                      /\ \A j \in 1..Len(pure.type_list) :
                            (pure.type_list[j].type = "varchar(max)"
                               /\ pure.type_list[j].value = Scalar("soon")) =>
                               pure.out.values[j] = << "N'", "soon", "'" >>

Wit_C24_NullBesideText ==
    /\ pure.fn = "sql_columns_and_values"
    /\ pure.returned
    /\ Len(pure.type_list) = 2
    /\ pure.type_list[1].type = "datetime"
    /\ pure.type_list[1].value = Scalar("soon")
    /\ pure.type_list[2].type = "varchar(max)"
    /\ pure.type_list[2].value = Scalar("soon")
    /\ pure.out.raised = "none"
    /\ pure.out.values = << << "NULL" >>, << "N'", "soon", "'" >> >>

\* C25: upsert keyed by identifier: whatever statements failed before, an
\* append_obj with the default recache sends an INSERT only for an id that
\* no row of the table has, so that no id comes to be held by two rows.
Cex_C25_InsertOnlyAbsentId ==
    ( /\ call.op = "append_obj"
      /\ call.recache
      /\ pc = "execute"
      /\ ex.stmt.kind = "insert" ) =>
        ex.stmt.row.id \notin TableIds(working)

\* C26: a no-op append leaves the destination as it was: when append_obj
\* returns False it has sent no ALTER TABLE, INSERT, UPDATE or CREATE TABLE
\* and no commit, and the table, in and out of the open transaction, and
\* the column cache are what they were when the call started.
Thm_C26_NoOpAppendChangesNothing ==
    (pc = "done" /\ call.op = "append_obj" /\ ret = "False") =>
        /\ Sent({"alter_add", "insert", "update", "create", "commit"}) = {}
        /\ << committed, working >> = pre.db
        /\ table_columns = pre.cols

Wit_C26_NoOpAfterRefresh ==
    /\ pc = "done"
    /\ call.op = "append_obj"
    /\ ret = "False"
    /\ call.recache
    /\ pre.inTable
    /\ Sent({"select_ids"}) # {}
    /\ working # committed

\* The position in the log of the row's INSERT/UPDATE (one per call).
WritePosition == CHOOSE w \in Sent({"insert", "update"}) : TRUE

\* The cached column set the descriptors are tested against when the cache
\* agreed with the table at the start of the call: an empty cache is filled
\* from the table by the first has_column.
CacheInSync == pre.cols = {} \/ pre.cols = pre.db[2].cols

\* ALTER TABLE ... ADD [c] was sent, and a column introspection after it,
\* both before position w of the log.
AlteredAndRefreshed(c, w) ==
    \E k \in 1..(w - 1) :
        /\ log[k].kind = "alter_add" /\ log[k].col = c
        /\ \E j \in (k + 1)..(w - 1) : log[j].kind = "select_columns"

\* C27: within one append, when the row's INSERT/UPDATE has been sent, every
\* descriptor column that was missing from the cached column set (at the
\* start of the call, or still when the statement is sent) had its ALTER
\* TABLE ... ADD sent and the column cache refreshed before the INSERT/UPDATE;
\* and when no driver call of the append has failed, every column the
\* INSERT/UPDATE names is in the column cache while the statement executes.
Thm_C27_ColumnsBeforeWrite ==
    (call.op \in {"append_obj", "append_ticket"}
        /\ Sent({"insert", "update"}) # {}) =>
        /\ \A c \in Range(ColumnList) :
              (c \notin table_columns
                  \/ (CacheInSync /\ c \notin pre.db[2].cols)) =>
                  AlteredAndRefreshed(c, WritePosition)
        /\ (pc = "execute" /\ ex.stmt.kind \in {"insert", "update"} /\ ~failed)
              => Range(ex.stmt.cols) \subseteq table_columns

Wit_C27_AlterThenInsert ==
    /\ call.op = "append_obj" /\ pc = "execute" /\ ~failed
    /\ ex.stmt.kind = "insert"
    /\ pre.cols # {} /\ "status" \notin pre.cols
    /\ AlteredAndRefreshed("status", WritePosition)
    /\ "status" \in table_columns

\* C28: during an append, every statement execution and every transaction
\* commit the sink performs goes through the retrying execute / commit
\* wrappers: the call's log holds no entry sent straight to the driver.
Cex_C28_EverythingThroughWrappers ==
    (call.op \in {"append_obj", "append_ticket"}) =>
        \A k \in 1..Len(log) :
            /\ log[k].via # "direct"
            /\ (log[k].kind = "commit") = (log[k].via = "commit")

\* The `tries` argument of the execute call whose frame is `ex`: the argument
\* of a direct call, the default inside the other methods.
TriesGiven == IF call.op = "execute" THEN call.tries ELSE DefaultTries

\* C29 as stated: one call execute(statement, tries=k) sends the statement
\* to the driver at most k times in total, first attempt and retries
\* counted together (10 with the default).
Cex_C29_AtMostTriesExecutions == ex.attempts <= TriesGiven

\* C29, amended: one call execute(statement, tries=k) sends the statement to
\* the driver at most k + 1 times in total: the first attempt and at most k
\* retries (11 executions with the default of 10).
Thm_C29_AtMostTriesPlusOneExecutions == ex.attempts <= TriesGiven + 1

Wit_C29_EleventhExecution ==
    /\ call.op = "append_obj"
    /\ ex.stmt.kind = "insert"
    /\ ex.attempts = DefaultTries + 1

\* ticket_field_types has returned the types of a ticket table.
TicketTyped == pure.fn = "ticket_field_types" /\ pure.returned

\* C30: the ticket mapper applies the date rule of the generic mapper: a
\* ticket field whose name ends in '_at' or is listed in date_fields is typed
\* 'datetime' by ticket_field_types, whatever 'direct' and 'except' say.
Cex_C30_TicketDateRule ==
    TicketTyped =>
        \A f \in DOMAIN pure.out :
            IsDate(pure.mapping_dict, f) => pure.out[f] = "datetime"

\* field_events has returned and its generator was run to its end.
FieldEventsRun == pure.fn = "field_events" /\ pure.returned

\* C31: every row of the field-change extractor has ticket_id equal to the
\* ticket id the caller passed, changed_at, audit_id and id '<audit id>-<event
\* id>' taken from the audit the event belongs to, whatever attributes the
\* event carries, and no field_name attribute.
Cex_C31_EnrichmentNotOverridden ==
    FieldEventsRun =>
        \A i \in 1..Len(pure.out.rows) :
            LET row == pure.out.rows[i].v
            IN  /\ row["ticket_id"] = Scalar(pure.ticket_id)
                /\ "field_name" \notin DOMAIN row
                /\ \E n \in 1..Len(pure.out.audits) :
                      LET audit == pure.out.audits[n]
                      IN  /\ row["changed_at"] = Scalar(audit.created_at)
                          /\ row["audit_id"] = Scalar(audit.id)
                          /\ row["id"] = Scalar(<< audit.id, "-",
                                                   row["event_id"].v >>)

\* get_table_ids(recache=True) has returned after the executor gave up on
\* its identifier SELECT, on a sink whose cache held identifiers.
RefreshGaveUp ==
    /\ pc = "done" /\ call.op = "get_table_ids" /\ call.recache
    /\ ~pre.ids.none /\ pre.ids.ids # {}
    /\ Sent({"select_ids"}) # {}
    /\ res.kind = "none"

\* C32: a refresh of the identifier cache that fails (the executor gives up
\* on the identifier SELECT) leaves the cache holding the identifiers it
\* held before the call.
Cex_C32_FailedRefreshKeepsCache == RefreshGaveUp => id_cache = pre.ids

\* C33: in every reachable state the cached column set is a subset of the
\* columns the destination table has for the sink's connection: has_column
\* reports no column as present that the table lacks.
Cex_C33_CacheWithinTableColumns == table_columns \subseteq working.cols

\* The commit of append_obj has returned after its first attempt failed and
\* the sink reconnected, the INSERT/UPDATE before it having succeeded.
CommitRetriedAfterWrite ==
    /\ pc = "committed" /\ call.op = "append_obj"
    /\ Sent({"insert", "update"}) # {}
    /\ res.kind = "ok"
    /\ cm.attempts >= 2 /\ cm.reconnects >= 1

\* C34: a write survives a retried commit: when the INSERT/UPDATE of
\* append_obj succeeded and the commit after it failed once, reconnected and
\* returned, the row is committed in the destination table.
Cex_C34_WriteSurvivesRetriedCommit ==
    CommitRetriedAfterWrite => committed.rows[call.row] > 0

====
